---- MODULE Spec2Model ----
(***************************************************************************)
(* Rental payment tracker: the billing schedule, the aggregate and the     *)
(* per-record payment status, the tenant/payment tables of                 *)
(* rental_tracker_app.py and the CSV ledger of                             *)
(* rental_dashboard_streamlit.py.                                          *)
(*                                                                         *)
(* Dates are <<year, month, day>> triples of the Gregorian calendar.       *)
(* Amounts are integers (the code uses floats; rounding is not modelled).  *)
(***************************************************************************)
EXTENDS Integers, Sequences, FiniteSets, TLC

VARIABLES
    \* get_due_dates, statement by statement
    start, freq_months, until, current, dates, pc,
    \* rental_tracker_app.py: the two tables, the clock, the rendered summary
    tenants, payments, today, summary,
    \* rental_dashboard_streamlit.py: the CSV file, the st.cache_data entry,
    \* the sidebar filter, the row built by the last form submit
    csv, cache, tenant_filter, new_row

schedVars == <<start, freq_months, until, current, dates, pc>>
trackVars == <<tenants, payments, today, summary>>
dashVars  == <<csv, cache, tenant_filter, new_row>>
vars      == <<start, freq_months, until, current, dates, pc,
               tenants, payments, today, summary,
               csv, cache, tenant_filter, new_row>>

----------------------------------------------------------------------------
(* Bounds of the model *)

MaxYears == 2
MaxRent == 2
MaxAmount == 2
MaxPayments == 2
MaxTenants == 2
MaxIter == 30
MaxRows == 3

FirstDay == <<2024, 1, 1>>
LastDay == <<2024 + MaxYears - 1, 12, 31>>

\* SQL NULL / Python None
NULL == <<>>

----------------------------------------------------------------------------
(* Calendar: datetime.date and dateutil.relativedelta(months=n) *)

IsLeap(y) == (y % 4 = 0 /\ y % 100 # 0) \/ y % 400 = 0

DaysInMonth(y, m) ==
    IF m = 2 THEN (IF IsLeap(y) THEN 29 ELSE 28)
    ELSE IF m \in {4, 6, 9, 11} THEN 30 ELSE 31

IsDate(d) == /\ d[2] \in 1..12
             /\ d[3] \in 1..DaysInMonth(d[1], d[2])

DateLT(a, b) ==
    \/ a[1] < b[1]
    \/ a[1] = b[1] /\ a[2] < b[2]
    \/ a[1] = b[1] /\ a[2] = b[2] /\ a[3] < b[3]

DateLE(a, b) == a = b \/ DateLT(a, b)

\* date + relativedelta(months=n): the month moves by n, the year carries,
\* the day is kept or clamped to the last day of the target month
AddMonths(d, n) ==
    LET t == (d[2] - 1) + n
        y == d[1] + (t \div 12)
        m == (t % 12) + 1
        dim == DaysInMonth(y, m)
    IN  <<y, m, IF d[3] > dim THEN dim ELSE d[3]>>

RECURSIVE DaysBeforeMonth(_, _)
DaysBeforeMonth(y, m) ==
    IF m = 1 THEN 0 ELSE DaysBeforeMonth(y, m - 1) + DaysInMonth(y, m - 1)

\* date.toordinal()
ToOrdinal(d) ==
    LET y == d[1] - 1
    IN  365 * y + (y \div 4) - (y \div 100) + (y \div 400)
        + DaysBeforeMonth(d[1], d[2]) + d[3]

\* (a - b).days
DaysBetween(a, b) == ToOrdinal(a) - ToOrdinal(b)

NextDay(d) ==
    IF d[3] < DaysInMonth(d[1], d[2]) THEN <<d[1], d[2], d[3] + 1>>
    ELSE IF d[2] < 12 THEN <<d[1], d[2] + 1, 1>>
    ELSE <<d[1] + 1, 1, 1>>

----------------------------------------------------------------------------
(* rental_tracker_app.py: utils *)

FreqLabels == {"Monthly", "Quarterly", "Semi-Annual", "Annual"}

freq_map(label) ==
    CASE label = "Monthly" -> 1
      [] label = "Quarterly" -> 3
      [] label = "Semi-Annual" -> 6
      [] label = "Annual" -> 12

\* freq_map.get(freq, 1)
freq_map_get(label) == IF label \in FreqLabels THEN freq_map(label) ELSE 1

RECURSIVE due_loop(_, _, _, _)
due_loop(cur, f, horizon, acc) ==
    IF DateLE(cur, horizon)
    THEN due_loop(AddMonths(cur, f), f, horizon, Append(acc, cur))
    ELSE acc

get_due_dates(s, f, horizon) == due_loop(s, f, horizon, <<>>)

RECURSIVE SumPaid(_, _)
\* SELECT SUM(amount_paid) FROM payments WHERE tenant_id=?   (or 0.0)
SumPaid(pays, tid) ==
    IF pays = <<>> THEN 0
    ELSE (IF Head(pays).tenant_id = tid THEN Head(pays).amount_paid ELSE 0)
         + SumPaid(Tail(pays), tid)

DueSoonDays == 7

\* sign slip: balance = paid - expected_amount
calculate_status_neg(tr, pays, now) ==
    LET freq_m == freq_map_get(tr.frequency)
        due_dates == get_due_dates(tr.start_date, freq_m, now)
        expected_count == Len(due_dates)
        balance == SumPaid(pays, tr.id) - expected_count * tr.rent
        next_due == AddMonths(tr.start_date, freq_m * expected_count)
    IN  [balance |-> balance,
         status |-> IF balance <= 0 THEN "Paid"
                    ELSE IF \E i \in 1..Len(due_dates) : DateLT(due_dates[i], now)
                         THEN "Overdue"
                    ELSE IF DaysBetween(next_due, now) <= DueSoonDays
                         THEN "Due Soon" ELSE "Unpaid"]

\* comparison slip: any(d <= today for d in due_dates)
calculate_status_le(tr, pays, now) ==
    LET freq_m == freq_map_get(tr.frequency)
        due_dates == get_due_dates(tr.start_date, freq_m, now)
        expected_count == Len(due_dates)
        balance == expected_count * tr.rent - SumPaid(pays, tr.id)
        next_due == AddMonths(tr.start_date, freq_m * expected_count)
    IN  [balance |-> balance,
         status |-> IF balance <= 0 THEN "Paid"
                    ELSE IF \E i \in 1..Len(due_dates) : DateLE(due_dates[i], now)
                         THEN "Overdue"
                    ELSE IF DaysBetween(next_due, now) <= DueSoonDays
                         THEN "Due Soon" ELSE "Unpaid"]

\* index slip: next_due = start + relativedelta(months=freq_m * (expected_count - 1))
calculate_status_prev(tr, pays, now) ==
    LET freq_m == freq_map_get(tr.frequency)
        due_dates == get_due_dates(tr.start_date, freq_m, now)
        expected_count == Len(due_dates)
        balance == expected_count * tr.rent - SumPaid(pays, tr.id)
        next_due == AddMonths(tr.start_date, freq_m * (expected_count - 1))
    IN  [balance |-> balance,
         status |-> IF balance <= 0 THEN "Paid"
                    ELSE IF \E i \in 1..Len(due_dates) : DateLT(due_dates[i], now)
                         THEN "Overdue"
                    ELSE IF DaysBetween(next_due, now) <= DueSoonDays
                         THEN "Due Soon" ELSE "Unpaid"]

calculate_status(tr, pays, now) ==
    LET freq_m == freq_map_get(tr.frequency)
        due_dates == get_due_dates(tr.start_date, freq_m, now)
        expected_count == Len(due_dates)
        expected_amount == expected_count * tr.rent
        paid == SumPaid(pays, tr.id)
        balance == expected_amount - paid
        next_due == AddMonths(tr.start_date, freq_m * expected_count)
    IN  [balance |-> balance,
         status |-> IF balance <= 0 THEN "Paid"
                    ELSE IF \E i \in 1..Len(due_dates) : DateLT(due_dates[i], now)
                         THEN "Overdue"
                    ELSE IF DaysBetween(next_due, now) <= DueSoonDays
                         THEN "Due Soon" ELSE "Unpaid"]

----------------------------------------------------------------------------
(* rental_tracker_app.py: the Streamlit script.  Every interaction reruns it *)
(* top to bottom: the sidebar operation, then the summary of active tenants. *)

IsActive(tr) == tr.end_date = NULL

\* SELECT ... FROM tenants WHERE end_date IS NULL   (in rowid order)
ActiveTenants(ts) == SelectSeq(ts, IsActive)

SummaryRow(tr, pays, now) ==
    LET r == calculate_status(tr, pays, now)
    IN  [Unit |-> tr.unit, Tenant |-> tr.name, Rent |-> tr.rent,
         AmountDue |-> r.balance, Phone |-> tr.phone, Status |-> r.status]

Summary(ts, pays, now) ==
    LET act == ActiveTenants(ts)
    IN  [k \in 1..Len(act) |-> SummaryRow(act[k], pays, now)]

\* f"{u} - {n}"
RemoveLabel(tr) == tr.unit \o " - " \o tr.name

Units == {"A", "B"}
Names == {"Ann"}

AddTenant(startDates, rents, freqs) ==
    /\ Len(tenants) < MaxTenants
    /\ \E u \in Units, n \in Names, s \in startDates, r \in rents, f \in freqs :
          tenants' = Append(tenants,
              [id |-> Len(tenants) + 1, unit |-> u, name |-> n, phone |-> "555",
               start_date |-> s, end_date |-> NULL, rent |-> r,
               frequency |-> f, type |-> "Residential"])
    /\ summary' = Summary(tenants', payments, today)
    /\ UNCHANGED <<payments, today>>

\* hard delete slip: DELETE FROM payments WHERE tenant_id=? next to the UPDATE
RemoveTenantPurge ==
    \E k \in 1..Len(ActiveTenants(tenants)) :
       LET active == ActiveTenants(tenants)
           sel == RemoveLabel(active[k])
           first == CHOOSE i \in 1..Len(active) :
                       /\ RemoveLabel(active[i]) = sel
                       /\ \A j \in 1..(i - 1) : RemoveLabel(active[j]) # sel
           tid == active[first].id
           KeepOthers(p) == p.tenant_id # tid
       IN  /\ tenants' = [tenants EXCEPT ![tid].end_date = today]
           /\ payments' = SelectSeq(payments, KeepOthers)
           /\ summary' = Summary(tenants', payments', today)
           /\ UNCHANGED today

RemoveTenant ==
    \E k \in 1..Len(ActiveTenants(tenants)) :
       LET active == ActiveTenants(tenants)
           sel == RemoveLabel(active[k])
           \* [tid for tid, u, n in active if f"{u} - {n}" == sel][0]
           first == CHOOSE i \in 1..Len(active) :
                       /\ RemoveLabel(active[i]) = sel
                       /\ \A j \in 1..(i - 1) : RemoveLabel(active[j]) # sel
           tid == active[first].id
       IN  /\ tenants' = [tenants EXCEPT ![tid].end_date = today]
           /\ summary' = Summary(tenants', payments, today)
           /\ UNCHANGED <<payments, today>>

\* sel is f"{tid}: {u} - {n}" and int(sel.split(':')[0]) reads the id back:
\* the option is picked by its position k and the id is the option's own
AddPayment(amounts, payDates) ==
    /\ Len(payments) < MaxPayments
    /\ \E k \in 1..Len(ActiveTenants(tenants)), a \in amounts, d \in payDates :
          LET tid == ActiveTenants(tenants)[k].id
          IN  payments' = Append(payments,
                  [id |-> Len(payments) + 1, tenant_id |-> tid, due_date |-> d,
                   amount_due |-> a, amount_paid |-> a, payment_date |-> d,
                   method |-> "Cash"])
    /\ summary' = Summary(tenants, payments', today)
    /\ UNCHANGED <<tenants, today>>

\* date.today() moves on; the next rerun renders the summary again
Tick(last) ==
    /\ DateLT(today, last)
    /\ today' = NextDay(today)
    /\ summary' = Summary(tenants, payments, today')
    /\ UNCHANGED <<tenants, payments>>

----------------------------------------------------------------------------
(* rental_dashboard_streamlit.py.  The CSV file is a sequence of rows; cache *)
(* is the st.cache_data entry of load_data: <<>> on a miss, <<df>> on a hit. *)

\* @st.cache_data load_data(): the cached frame when there is one, else the file
load_data == IF cache # <<>> THEN cache[1] ELSE csv

\* ['All'] + sorted(df['Tenant Name'].unique().tolist())
FilterOptions(df) == {"All"} \cup {df[i].TenantName : i \in 1..Len(df)}

\* a selectbox whose stored value is no longer an option falls back to 'All'
EffectiveFilter(df) ==
    IF tenant_filter \in FilterOptions(df) THEN tenant_filter ELSE "All"

\* if tenant_filter != 'All': df = df[df['Tenant Name'] == tenant_filter]
FilterDf(df, tf) ==
    IF tf = "All" THEN df
    ELSE LET Keep(row) == row.TenantName = tf IN SelectSeq(df, Keep)

\* df[df['Unit'] == unit]['Tenant Name'].iloc[0]
TenantOfUnit(df, unit) ==
    df[CHOOSE i \in 1..Len(df) :
          /\ df[i].Unit = unit
          /\ \A j \in 1..(i - 1) : df[j].Unit # unit].TenantName

\* order slip: the amount_paid == 0 test before the amount_paid == amount_due test
record_status_swapped(amount_due, amount_paid, due_date, payment_date) ==
    IF amount_paid = 0 THEN "Unpaid"
    ELSE IF amount_paid = amount_due THEN "Paid"
    ELSE IF DateLT(due_date, payment_date) THEN "Overdue"
    ELSE "Partial"

record_status(amount_due, amount_paid, due_date, payment_date) ==
    IF amount_paid = amount_due THEN "Paid"
    ELSE IF amount_paid = 0 THEN "Unpaid"
    ELSE IF DateLT(due_date, payment_date) THEN "Overdue"
    ELSE "Partial"

DashDates == {<<2024, 3, 1>>, <<2024, 3, 2>>}

LedgerRow(unit, name, due, paid) ==
    [Unit |-> unit, TenantName |-> name, Installment |-> 1,
     DueDate |-> <<2024, 2, 1>>, AmountDue |-> due, AmountPaid |-> paid,
     PaymentDate |-> <<2024, 2, 1>>, Method |-> "Cash",
     Remaining |-> due - paid, Status |-> IF due = paid THEN "Paid" ELSE "Partial"]

\* tenant_payments.csv as found at the first run
InitialLedgers ==
    {<<LedgerRow("U1", "Ann", 1, 1), LedgerRow("U2", "Bob", 1, 1)>>,
     <<LedgerRow("U1", "Ann", 2, 1)>>}

\* a rerun of the script where the sidebar filter is set and nothing is submitted
SelectFilter ==
    /\ \E tf \in FilterOptions(load_data) : tenant_filter' = tf
    /\ cache' = <<load_data>>
    /\ new_row' = NULL
    /\ UNCHANGED csv

\* a rerun of the script where the new_payment form is submitted
SubmitPayment(amounts, dueDates, payDates) ==
    LET loaded == load_data
        df == FilterDf(loaded, EffectiveFilter(loaded))
    IN  /\ Len(df) < MaxRows
        /\ \E i \in 1..Len(df), amount_due \in amounts, amount_paid \in amounts,
              due_date \in dueDates, payment_date \in payDates :
              LET unit == df[i].Unit
                  row == [Unit |-> unit,
                          TenantName |-> TenantOfUnit(df, unit),
                          Installment |-> 1,
                          DueDate |-> due_date,
                          AmountDue |-> amount_due,
                          AmountPaid |-> amount_paid,
                          PaymentDate |-> payment_date,
                          Method |-> "Cash",
                          Remaining |-> amount_due - amount_paid,
                          Status |-> record_status(amount_due, amount_paid,
                                                   due_date, payment_date)]
              IN  /\ new_row' = row
                  \* df = pd.concat([df, new_row]); df.to_csv(...)
                  /\ csv' = Append(df, row)
        /\ tenant_filter' = EffectiveFilter(loaded)
        /\ cache' = <<loaded>>

\* the server process restarts (or the cache is cleared): the entry is gone
ClearCache ==
    /\ cache # <<>>
    /\ cache' = <<>>
    /\ UNCHANGED <<csv, tenant_filter, new_row>>

----------------------------------------------------------------------------
(* Idle values of the parts a specification does not exercise *)

SchedIdle == /\ start = NULL /\ freq_months = 0 /\ until = NULL
             /\ current = NULL /\ dates = <<>> /\ pc = "idle"

DashIdle == /\ csv = <<>> /\ cache = <<>> /\ tenant_filter = "All"
            /\ new_row = NULL

TrackIdle == /\ tenants = <<>> /\ payments = <<>> /\ today = FirstDay
             /\ summary = <<>>

----------------------------------------------------------------------------
(* SpecStatus: calculate_status of one tenant row, over every as-of date *)

StatusStarts ==
    {<<2024, 1, 1>>, <<2024, 1, 31>>, <<2024, 2, 29>>, <<2024, 12, 31>>}

\* the frequency column is free TEXT: a row may hold a label freq_map lacks
StoredLabels == FreqLabels \cup {"Weekly"}

InitStatus ==
    /\ \E s \in StatusStarts, f \in StoredLabels, r \in 0..MaxRent :
          tenants = <<[id |-> 1, unit |-> "A", name |-> "Ann", phone |-> "555",
                       start_date |-> s, end_date |-> NULL, rent |-> r,
                       frequency |-> f, type |-> "Residential"]>>
    /\ payments = <<>>
    /\ today = FirstDay
    /\ summary = Summary(tenants, payments, today)
    /\ SchedIdle /\ DashIdle

TickStatus == Tick(LastDay) /\ UNCHANGED <<schedVars, dashVars>>

AddPaymentStatus ==
    AddPayment({MaxAmount}, {FirstDay}) /\ UNCHANGED <<schedVars, dashVars>>

NextStatus == TickStatus \/ AddPaymentStatus

SpecStatus == InitStatus /\ [][NextStatus]_vars

\* The active tenants whose stored frequency is one of freq_map's labels
ValidRows == {k \in 1..Len(ActiveTenants(tenants)) :
                 ActiveTenants(tenants)[k].frequency \in FreqLabels}

DueOf(tr, now) == get_due_dates(tr.start_date, freq_map(tr.frequency), now)

C6_MalformedFrequencyIsError ==
    \A k \in 1..Len(ActiveTenants(tenants)) :
       ActiveTenants(tenants)[k].frequency \notin FreqLabels
          => summary[k].Status = "InvalidScheduleError"

\* C9: for a fixed tenant and fixed payments, when the as-of date advances
\* the number of generated due dates does not decrease, and neither does
\* the balance.
C9_Monotone ==
    [][(tenants' = tenants /\ payments' = payments /\ DateLE(today, today'))
         => \A k \in 1..Len(ActiveTenants(tenants)) :
               LET tr == ActiveTenants(tenants)[k]
                   f == freq_map_get(tr.frequency)
               IN  /\ Len(get_due_dates(tr.start_date, f, today))
                        <= Len(get_due_dates(tr.start_date, f, today'))
                   /\ summary[k].AmountDue <= summary'[k].AmountDue]_vars

\* C9 witness: the as-of date has advanced past several due dates of a
\* tenant with a positive rent
C9_Witness ==
    \E k \in 1..Len(ActiveTenants(tenants)) :
       LET tr == ActiveTenants(tenants)[k]
       IN  /\ tr.rent > 0
           /\ DateLT(tr.start_date, today)
           /\ Len(get_due_dates(tr.start_date, freq_map_get(tr.frequency), today)) >= 2
           /\ summary[k].AmountDue >= 2 * tr.rent

\* C10: for a tenant with rent >= 0, a frequency of 1, 3, 6 or 12 months and
\* payments >= 0, the status is never Due Soon; it is Paid when the lease
\* starts after asOf; with a positive balance it is Overdue exactly when
\* start < asOf and Unpaid when start = asOf.
C10_NeverDueSoon ==
    \A k \in ValidRows :
       LET tr == ActiveTenants(tenants)[k]
       IN  /\ summary[k].Status # "Due Soon"
           /\ DateLT(today, tr.start_date) => summary[k].Status = "Paid"
           /\ summary[k].AmountDue > 0 =>
                 /\ summary[k].Status = "Overdue" <=> DateLT(tr.start_date, today)
                 /\ tr.start_date = today => summary[k].Status = "Unpaid"

\* C10 witness: on the day the lease starts, with a positive balance, the
\* next due date is a month away and the status is Unpaid
C10_Witness ==
    \E k \in ValidRows :
       /\ ActiveTenants(tenants)[k].start_date = today
       /\ today # FirstDay
       /\ summary[k].AmountDue > 0
       /\ summary[k].Status = "Unpaid"

----------------------------------------------------------------------------------------------------------------------------------------
(* SpecDash: the dashboard's reruns over tenant_payments.csv, across server *)
(* restarts                                                                 *)

InitDash ==
    /\ csv \in InitialLedgers
    /\ cache = <<>>
    /\ tenant_filter = "All"
    /\ new_row = NULL
    /\ SchedIdle /\ TrackIdle

SubmitDash == SubmitPayment({0, MaxAmount}, {<<2024, 3, 1>>}, DashDates)

NextDash ==
    \/ SelectFilter /\ UNCHANGED <<schedVars, trackVars>>
    \/ SubmitDash /\ UNCHANGED <<schedVars, trackVars>>
    \/ ClearCache /\ UNCHANGED <<schedVars, trackVars>>

SpecDash == InitDash /\ [][NextDash]_vars

\* C4: the ledger is append-only: under any tenant filter, an Add Payment
\* leaves every stored record in place and unchanged, and the store grows by
\* exactly the one new record.
C4_AppendOnly ==
    [][SubmitDash => csv' = Append(csv, new_row')]_vars

----------------------------------------------------------------------------
(* SpecRecord: the new_payment form over every amount and date pair, within *)
(* one server process                                                       *)

SubmitRecord == SubmitPayment(0..MaxAmount, DashDates, DashDates)

NextRecord ==
    \/ SelectFilter /\ UNCHANGED <<schedVars, trackVars>>
    \/ SubmitRecord /\ UNCHANGED <<schedVars, trackVars>>

SpecRecord == InitDash /\ [][NextRecord]_vars

\* C3: the status of a logged payment is Paid when amountPaid = amountDue,
\* else Unpaid when amountPaid = 0, else Overdue when paymentDate > dueDate,
\* else Partial; it is always one of these four tags and the first matching
\* rule wins.
C3_RecordStatus ==
    new_row # NULL =>
       LET r == new_row
           full == r.AmountPaid = r.AmountDue
           none == r.AmountPaid = 0
           late == DateLT(r.DueDate, r.PaymentDate)
       IN  /\ r.Status \in {"Paid", "Unpaid", "Overdue", "Partial"}
           /\ r.Status = "Paid" <=> full
           /\ r.Status = "Unpaid" <=> ~full /\ none
           /\ r.Status = "Overdue" <=> ~full /\ ~none /\ late
           /\ r.Status = "Partial" <=> ~full /\ ~none /\ ~late

\* C3 witness: an overpayment made on the due date is logged as Partial
C3_Witness ==
    /\ new_row # NULL
    /\ new_row.AmountPaid > new_row.AmountDue
    /\ new_row.PaymentDate = new_row.DueDate
    /\ new_row.Status = "Partial"
    /\ csv[Len(csv)] = new_row

----------------------------------------------------------------------------
(* SpecSchedule: get_due_dates run statement by statement *)

SchedStarts ==
    {<<2024, 1, 1>>, <<2024, 1, 15>>, <<2024, 1, 29>>, <<2024, 1, 30>>,
     <<2024, 1, 31>>, <<2024, 2, 29>>, <<2024, 3, 31>>, <<2024, 8, 31>>,
     <<2024, 11, 30>>, <<2025, 1, 31>>}

SchedHorizons ==
    {d \in (2024..2025) \X (1..12) \X {1, 15, 28, 29, 30, 31} : IsDate(d)}

\* 0 is a malformed month count; the others are the intervals a caller may pass
SchedFreqs == {0, 1, 2, 3, 6, 12}

InitSchedule ==
    /\ start \in SchedStarts
    /\ freq_months \in SchedFreqs
    /\ until \in SchedHorizons
    /\ dates = <<>>
    /\ current = start
    /\ pc = "while"
    /\ TrackIdle /\ DashIdle

\* while current <= until: dates.append(current); current += relativedelta(...)
LoopBody ==
    /\ pc = "while"
    /\ DateLE(current, until)
    /\ Len(dates) < MaxIter
    /\ dates' = Append(dates, current)
    /\ current' = AddMonths(current, freq_months)
    /\ UNCHANGED <<start, freq_months, until, pc>>

\* the loop condition fails: return dates
LoopExit ==
    /\ pc = "while"
    /\ ~DateLE(current, until)
    /\ pc' = "returned"
    /\ UNCHANGED <<start, freq_months, until, current, dates>>

NextSchedule ==
    \/ LoopBody /\ UNCHANGED <<trackVars, dashVars>>
    \/ LoopExit /\ UNCHANGED <<trackVars, dashVars>>

SpecSchedule == InitSchedule /\ [][NextSchedule]_vars

\* The statement-by-statement loop and the operator get_due_dates agree
LoopAgreesWithOperator ==
    pc = "returned" => dates = get_due_dates(start, freq_months, until)

\* With a month count of 0 the loop condition never fails
ZeroFrequencyNeverReturns ==
    freq_months = 0 /\ DateLE(start, until) => pc # "returned"

\* The multiples k with start + k*f months <= horizon
MultiplesWithin(s, f, horizon) ==
    {k \in 0..MaxIter : DateLE(AddMonths(s, k * f), horizon)}

\* C2: for f > 0 the generator returns exactly the dates start + k*f months,
\* each computed from start with the day kept or clamped, for every k whose
\* date is <= horizon, in increasing order, all >= start and <= horizon.
C2_ScheduleFromStart ==
    pc = "returned" /\ freq_months > 0 =>
       /\ Len(dates) = Cardinality(MultiplesWithin(start, freq_months, until))
       /\ \A k \in 1..Len(dates) :
             /\ dates[k] = AddMonths(start, (k - 1) * freq_months)
             /\ DateLE(start, dates[k]) /\ DateLE(dates[k], until)
       /\ \A k \in 1..(Len(dates) - 1) : DateLT(dates[k], dates[k + 1])

----------------------------------------------------------------------------
(* SpecTracker: Add Tenant, Remove Tenant and Add Payment over a few days *)

TrackerLastDay == NextDay(FirstDay)

TrackerStarts == {FirstDay, TrackerLastDay}

\* st.sidebar.selectbox('Payment Frequency', ...) offers freq_map's keys
TrackerFreqs == {"Monthly", "Annual"}

InitTracker ==
    /\ tenants = <<>>
    /\ payments = <<>>
    /\ today = FirstDay
    /\ summary = <<>>
    /\ SchedIdle /\ DashIdle

NextTracker ==
    \/ AddTenant(TrackerStarts, {MaxRent}, TrackerFreqs) /\ UNCHANGED <<schedVars, dashVars>>
    \/ RemoveTenant /\ UNCHANGED <<schedVars, dashVars>>
    \/ AddPayment({MaxAmount}, {today}) /\ UNCHANGED <<schedVars, dashVars>>
    \/ Tick(TrackerLastDay) /\ UNCHANGED <<schedVars, dashVars>>

SpecTracker == InitTracker /\ [][NextTracker]_vars

\* C5: no two active tenants have the same unit.
C5_UnitUniqueAmongActive ==
    \A i, j \in 1..Len(tenants) :
       (i # j /\ IsActive(tenants[i]) /\ IsActive(tenants[j]))
          => tenants[i].unit # tenants[j].unit

\* C7: every tenant whose end date is set has end date >= start date.
C7_EndNotBeforeStart ==
    \A i \in 1..Len(tenants) :
       tenants[i].end_date # NULL
          => DateLE(tenants[i].start_date, tenants[i].end_date)

\* C8: Remove Tenant sets only the end date of the selected tenant and leaves
\* that tenant's other fields, every other tenant and every payment record
\* unchanged; a removed tenant stays removed and is never listed in the
\* summary of active tenants, while its payment records stay in the store.
C8_SoftDelete ==
    [][/\ Len(tenants') >= Len(tenants)
       /\ \A i \in 1..Len(tenants) :
             \/ tenants'[i] = tenants[i]
             \/ /\ tenants[i].end_date = NULL
                /\ tenants'[i] = [tenants[i] EXCEPT !.end_date = today]
                /\ \A j \in 1..Len(tenants) : j # i => tenants'[j] = tenants[j]
                /\ Len(tenants') = Len(tenants)
                /\ payments' = payments
       /\ \A p \in 1..Len(payments) :
             Len(payments') >= p /\ payments'[p] = payments[p]
       /\ Len(summary') = Cardinality({i \in 1..Len(tenants') :
                                          tenants'[i].end_date = NULL})
       /\ \A k \in 1..Len(summary') :
             \E i \in 1..Len(tenants') :
                /\ tenants'[i].end_date = NULL
                /\ summary'[k].Unit = tenants'[i].unit
                /\ summary'[k].Tenant = tenants'[i].name]_vars

\* C8 witness: a tenant with a recorded payment has been removed, another
\* tenant is still active and is the only one listed
C8_Witness ==
    \E i, j \in 1..Len(tenants) :
       /\ tenants[i].end_date # NULL
       /\ \E p \in 1..Len(payments) : payments[p].tenant_id = i
       /\ tenants[j].end_date = NULL
       /\ tenants[j].unit # tenants[i].unit
       /\ Len(summary) = 1
       /\ summary[1].Unit = tenants[j].unit

====
